---- MODULE Spec2Model ----
(***************************************************************************)
(* Model of src/commands/refactor.ts: the command handler                  *)
(* RefactorCommands.performRefactor, its helpers shouldAbortRefactor,      *)
(* shouldApplyEdits and getRefactor, and the EXTRACT_METHOD options        *)
(* resolver getExtractMethodArgs.                                          *)
(*                                                                         *)
(* performRefactor is an async function.  Each action below is the code    *)
(* that runs between two awaits: it starts when the awaited collaborator   *)
(* (analysis server, input box, message prompt) resolves and runs up to    *)
(* the next await or to the end of the function.  The document is owned    *)
(* by the editor and may be edited or closed while the flow is suspended.  *)
(*                                                                         *)
(* Optional JavaScript values are sequences of length at most one:         *)
(* undefined is << >> and a present value v is << v >>.  Strings are       *)
(* TLA+ strings, concatenated with \o.                                     *)
(***************************************************************************)
EXTENDS Naturals, Sequences, FiniteSets, TLC

\* ------------------------------------------------------------------------
\* Bounds of the model
\* ------------------------------------------------------------------------

\* Largest number of problems one response carries (over its three lists).
MaxProblems == 2

\* Largest number of edits the editor makes to the document during a run.
MaxEdits == 1

\* ------------------------------------------------------------------------
\* Values
\* ------------------------------------------------------------------------

Undefined == << >>

Some(v) == << v >>

REFACTOR_FAILED_DOC_MODIFIED == "This refactor cannot be applied because the document has changed."

REFACTOR_ANYWAY == "Refactor Anyway"

NOT_APPLIED == "\n\nYour refactor was not applied."

INPUT_PROMPT == "Enter a name for the method"

\* The kinds a command may be invoked with; only EXTRACT_METHOD has a resolver.
RefactoringKinds == {"EXTRACT_METHOD", "EXTRACT_LOCAL_VARIABLE"}

\* The keys of the refactorOptions table.
refactorOptions == {"EXTRACT_METHOD"}

Severities == {"FATAL", "ERROR", "WARNING"}

ProblemMessages == {"m1", "m2"}

Problems == [severity : Severities, message : ProblemMessages]

SeqUpTo(S, n) == UNION {[1..k -> S] : k \in 0..n}

\* The three problem lists of a response: every way of cutting a list of at
\* most MaxProblems problems into initial, options and final problems.
ProblemLists ==
    UNION { UNION { { [initialProblems |-> SubSeq(all, 1, i),
                       optionsProblems |-> SubSeq(all, i + 1, j),
                       finalProblems   |-> SubSeq(all, j + 1, Len(all))] :
                      j \in i..Len(all) } :
                    i \in 0..Len(all) } :
            all \in SeqUpTo(Problems, MaxProblems) }

\* ExtractMethodFeedback.names: missing, empty, or a list of suggestions.
FeedbackNames == {Undefined, Some(<< >>), Some(<<"extracted">>), Some(<<"f", "extracted">>)}

FeedbackParameters == {<< >>, <<"p">>}

FeedbackReturnTypes == {"void", "int"}

Feedbacks == [names : FeedbackNames, parameters : FeedbackParameters,
              returnType : FeedbackReturnTypes]

\* SourceChange values: one without edits and one with an edit.
SourceChanges == {[edits |-> << >>], [edits |-> <<"edit">>]}

\* What showInputBox resolves to: undefined on cancel, else the typed string.
InputBoxAnswers == {Undefined, Some(""), Some("computeTotal")}

\* What a message prompt with one item resolves to: undefined or the item.
PromptAnswers == {Undefined, Some(REFACTOR_ANYWAY)}

\* ------------------------------------------------------------------------
\* Array helpers
\* ------------------------------------------------------------------------

\* Array.prototype.filter with the predicate "severity is in sevs".
RECURSIVE FilterSeverity(_, _)
FilterSeverity(ps, sevs) ==
    IF ps = << >> THEN << >>
    ELSE IF Head(ps).severity \in sevs
         THEN <<Head(ps)>> \o FilterSeverity(Tail(ps), sevs)
         ELSE FilterSeverity(Tail(ps), sevs)

\* Array.prototype.map((e) => e.message).
MapMessage(ps) == [i \in 1..Len(ps) |-> ps[i].message]

Elems(s) == {s[i] : i \in 1..Len(s)}

\* unique() of ../utils: each distinct item once, in order of first occurrence.
RECURSIVE unique(_)
unique(items) ==
    IF items = << >> THEN << >>
    ELSE LET init == unique(SubSeq(items, 1, Len(items) - 1))
             last == items[Len(items)]
         IN  IF last \in Elems(init) THEN init ELSE Append(init, last)

\* Array.prototype.join(sep).
RECURSIVE Join(_, _)
Join(strs, sep) ==
    IF strs = << >> THEN ""
    ELSE IF Len(strs) = 1 THEN strs[1]
    ELSE strs[1] \o sep \o Join(Tail(strs), sep)

\* initialProblems.concat(optionsProblems).concat(finalProblems)
ConcatProblems(result) ==
    result.initialProblems \o result.optionsProblems \o result.finalProblems

\* ------------------------------------------------------------------------
\* The document (owned by the editor)
\* ------------------------------------------------------------------------

\* The selection: from (line 1, character 0) to (line 1, character 1).
RangeStart == [line |-> 1, character |-> 0]

RangeEnd == [line |-> 1, character |-> 1]

Min(a, b) == IF a < b THEN a ELSE b

\* document.offsetAt(position): the characters before the position, each
\* earlier line counted with its line break; the position is clamped to
\* the text.  lineLengths[i] is the length of line i-1.
RECURSIVE LinesBefore(_, _)
LinesBefore(lineLengths, n) ==
    IF n = 0 THEN 0 ELSE LinesBefore(lineLengths, n - 1) + lineLengths[n] + 1

offsetAt(doc, position) ==
    LET line == Min(position.line, Len(doc.lineLengths) - 1)
    IN  LinesBefore(doc.lineLengths, line)
          + Min(position.character, doc.lineLengths[line + 1])

InitialDocument ==
    [fileName |-> "a.dart", version |-> 1, isClosed |-> FALSE,
     lineLengths |-> <<0, 3>>]

\* ------------------------------------------------------------------------
\* State
\* ------------------------------------------------------------------------

VARIABLES
    pc,                       \* where the invocation is
    document,                 \* the editor's document
    refactorKind,             \* the refactorKind argument
    originalDocumentVersion,  \* line 33
    validationResult,         \* line 36, while it is still read
    validationProblems,       \* line 71: the FATAL problems of the validation
    name,                     \* line 128: what the input box resolved to
    options,                  \* line 41
    editResult,               \* line 46
    choice,                   \* line 107: what the consent prompt resolved to
    applyEdits,               \* line 47: what shouldApplyEdits returned
    requests,                 \* the calls of analyzer.editGetRefactoring, in order
    shown,                    \* the calls of vs.window.show..., in order
    applied,                  \* the calls of _dart.applySourceChange, in order
    second,                   \* a second, concurrent invocation of performRefactor
    landed                    \* which applied changes the editor has carried out

vars == <<pc, document, refactorKind, originalDocumentVersion, validationResult,
          validationProblems, name, options, editResult, choice, applyEdits,
          requests, shown, applied, second, landed>>

Terminal == {"Aborted", "Applying", "Rejected"}

\* ------------------------------------------------------------------------
\* Collaborator calls
\* ------------------------------------------------------------------------

\* vs.window.showErrorMessage(message, ...items)
showErrorMessage(message, items) ==
    [call |-> "showErrorMessage", message |-> message, items |-> items,
     value |-> Undefined]

\* vs.window.showWarningMessage(message, ...items)
showWarningMessage(message, items) ==
    [call |-> "showWarningMessage", message |-> message, items |-> items,
     value |-> Undefined]

\* vs.window.showInputBox({ prompt, value })
showInputBox(prompt, value) ==
    [call |-> "showInputBox", message |-> prompt, items |-> << >>,
     value |-> value]

\* Variant of getRefactor: every request is sent as a validation.
getRefactorValidating(doc, kind, validateOnly, opts) ==
    [file         |-> doc.fileName,
     kind         |-> kind,
     length       |-> offsetAt(doc, RangeEnd) - offsetAt(doc, RangeStart),
     offset       |-> offsetAt(doc, RangeStart),
     options      |-> opts,
     validateOnly |-> TRUE]

\* The argument getRefactor passes to analyzer.editGetRefactoring.
getRefactor(doc, kind, validateOnly, opts) ==
    [file         |-> doc.fileName,
     kind         |-> kind,
     length       |-> offsetAt(doc, RangeEnd) - offsetAt(doc, RangeStart),
     offset       |-> offsetAt(doc, RangeStart),
     options      |-> opts,
     validateOnly |-> validateOnly]

\* ------------------------------------------------------------------------
\* shouldAbortRefactor
\* ------------------------------------------------------------------------

\* Variant of ValidationProblems: ERROR problems are kept as well.
ValidationProblemsWithErrors(result) ==
    FilterSeverity(ConcatProblems(result), {"FATAL", "ERROR"})

\* const validationProblems = ... .filter((e) => e.severity === "FATAL")
ValidationProblems(result) == FilterSeverity(ConcatProblems(result), {"FATAL"})

\* Variant of AbortMessage: the message of the last FATAL problem.
AbortMessageOfLast(fatals) == fatals[Len(fatals)].message

\* The message shouldAbortRefactor shows: that of validationProblems[0].
AbortMessage(fatals) == fatals[1].message

\* [abort: the returned boolean, shown: the messages it shows]
shouldAbortRefactor(result) ==
    LET fatals == ValidationProblems(result)
    IN  IF Len(fatals) # 0
        THEN [abort |-> TRUE,
              shown |-> <<showErrorMessage(AbortMessage(fatals), << >>)>>]
        ELSE [abort |-> FALSE, shown |-> << >>]

\* ------------------------------------------------------------------------
\* getExtractMethodArgs
\* ------------------------------------------------------------------------

\* feedback.names && feedback.names.length ? feedback.names[0] : undefined
SuggestedName(feedback) ==
    IF feedback.names # Undefined /\ Len(feedback.names[1]) # 0
    THEN Some(feedback.names[1][1])
    ELSE Undefined

\* Variant of NameIsFalsy: only undefined counts.
NameIsUndefined(n) == n = Undefined

\* !name : undefined and the empty string are falsy.
NameIsFalsy(n) == n = Undefined \/ n[1] = ""

\* Variant of OptionsName: the suggested name wins over the entered one.
OptionsNameSuggested(feedback, n) ==
    IF SuggestedName(feedback) # Undefined THEN SuggestedName(feedback)[1] ELSE n[1]

\* The name put in the returned options.
OptionsName(feedback, n) == n[1]

\* Variant of ExtractMethodOptions: a default name replaces a missing one.
ExtractMethodOptionsDefaulted(feedback, n) ==
    Some([createGetter |-> FALSE,
          extractAll   |-> FALSE,
          name         |-> IF NameIsFalsy(n) THEN "newMethod" ELSE n[1],
          parameters   |-> feedback.parameters,
          returnType   |-> feedback.returnType])

\* What getExtractMethodArgs returns once the input box resolved to n.
ExtractMethodOptions(feedback, n) ==
    IF NameIsFalsy(n)
    THEN Undefined
    ELSE Some([createGetter |-> FALSE,
               extractAll   |-> FALSE,
               name         |-> OptionsName(feedback, n),
               parameters   |-> feedback.parameters,
               returnType   |-> feedback.returnType])

\* ------------------------------------------------------------------------
\* shouldApplyEdits
\* ------------------------------------------------------------------------

EditFatals(result) == FilterSeverity(ConcatProblems(result), {"FATAL"})

EditWarnings(result) == FilterSeverity(ConcatProblems(result), {"ERROR", "WARNING"})

\* Variant of HasErrors: looks for FATAL problems instead of ERROR ones.
HasErrorsLooksForFatal(result) == FilterSeverity(ConcatProblems(result), {"FATAL"}) # << >>

\* !!allProblems.find((e) => e.severity === "ERROR")
HasErrors(result) == FilterSeverity(ConcatProblems(result), {"ERROR"}) # << >>

\* Variant of FatalMessage: the messages are not passed through unique().
FatalMessageRepeated(result) ==
    Join(MapMessage(EditFatals(result)), "\n\n") \o NOT_APPLIED

\* The text shown for FATAL problems (line 94).
FatalMessage(result) ==
    Join(unique(MapMessage(EditFatals(result))), "\n\n") \o NOT_APPLIED

\* Variant of ConsentPrompt: the messages are not passed through unique().
ConsentPromptRepeated(result) ==
    LET text == Join(MapMessage(EditWarnings(result)), "\n\n")
    IN  IF HasErrors(result)
        THEN showErrorMessage(text, <<REFACTOR_ANYWAY>>)
        ELSE showWarningMessage(text, <<REFACTOR_ANYWAY>>)

\* The consent prompt (lines 106-107).
ConsentPrompt(result) ==
    LET text == Join(unique(MapMessage(EditWarnings(result))), "\n\n")
    IN  IF HasErrors(result)
        THEN showErrorMessage(text, <<REFACTOR_ANYWAY>>)
        ELSE showWarningMessage(text, <<REFACTOR_ANYWAY>>)

\* Variant of ChangeIsFalsy: looks for a change without edits instead.
ChangeHasNoEdits(result) ==
    result.change # Undefined /\ result.change[1].edits = << >>

\* !editResult.change : only a missing change is falsy.
ChangeIsFalsy(result) == result.change = Undefined

\* Variant of Consented: the answer of the prompt is ignored.
ConsentedWhatever(answer) == TRUE

\* applyEdits = (REFACTOR_ANYWAY === await show(...))
Consented(answer) == answer = Some(REFACTOR_ANYWAY)

\* Variant of DocumentModified: the version is compared whatever applyEdits is.
DocumentModifiedRegardless(apply, doc, originalVersion) ==
    doc.version # originalVersion

\* Variant of DocumentModified: only an older version counts as modified.
DocumentModifiedIfOlder(apply, doc, originalVersion) ==
    apply /\ doc.version < originalVersion

\* Variant of DocumentModified: one edit since the capture is tolerated.
DocumentModifiedByTwo(apply, doc, originalVersion) ==
    apply /\ doc.version > originalVersion + 1

\* applyEdits && document.version !== originalDocumentVersion
DocumentModified(apply, doc, originalVersion) ==
    apply /\ doc.version # originalVersion

\* Variant of FinalGate: the message is shown but false is not returned.
FinalGateWithoutReturn(apply, doc, originalVersion) ==
    IF apply /\ doc.version # originalVersion
    THEN [apply |-> apply,
          shown |-> <<showErrorMessage(REFACTOR_FAILED_DOC_MODIFIED, << >>)>>]
    ELSE [apply |-> apply, shown |-> << >>]

\* Lines 110-116: [apply: the returned boolean, shown: the messages shown]
FinalGate(apply, doc, originalVersion) ==
    IF DocumentModified(apply, doc, originalVersion)
    THEN [apply |-> FALSE,
          shown |-> <<showErrorMessage(REFACTOR_FAILED_DOC_MODIFIED, << >>)>>]
    ELSE [apply |-> apply, shown |-> << >>]

\* Variant of applySourceChange: the change is not passed on.
applySourceChangeWithoutChange(doc, result) ==
    [document |-> doc.fileName, change |-> Undefined]

\* The call of _dart.applySourceChange (line 50).
applySourceChange(doc, result) == [document |-> doc.fileName, change |-> result.change]

\* ------------------------------------------------------------------------
\* Responses of the analysis server
\* ------------------------------------------------------------------------

HasFatal(lists) == FilterSeverity(ConcatProblems(lists), {"FATAL"}) # << >>

Response(lists, feedback, change) ==
    [initialProblems |-> lists.initialProblems,
     optionsProblems |-> lists.optionsProblems,
     finalProblems   |-> lists.finalProblems,
     feedback        |-> feedback,
     change          |-> change]

\* Responses to the validateOnly request.  The feedback is read only for
\* EXTRACT_METHOD and only when no problem is FATAL (line 41); the other
\* responses are enumerated without feedback.
ValidationResponses(kind) ==
    { Response(lists, Undefined, Undefined) :
        lists \in {l \in ProblemLists : HasFatal(l) \/ kind # "EXTRACT_METHOD"} }
    \cup
    { Response(lf[1], Some(lf[2]), Undefined) :
        lf \in {l \in ProblemLists : ~HasFatal(l) /\ kind = "EXTRACT_METHOD"}
               \X Feedbacks }

\* Responses to the second request: a change may be missing or present.
EditResponses ==
    { Response(lc[1], Undefined, lc[2]) :
        lc \in ProblemLists \X ({Undefined} \cup {Some(c) : c \in SourceChanges}) }

\* ------------------------------------------------------------------------
\* Initial state
\* ------------------------------------------------------------------------

\* The second invocation before it is invoked.
SecondIdle ==
    [pc |-> "Idle", originalDocumentVersion |-> 0, options |-> Undefined,
     applyEdits |-> Undefined, requests |-> << >>, shown |-> << >>,
     applied |-> << >>]

Init ==
    /\ pc = "Idle"
    /\ document = InitialDocument
    /\ refactorKind = Undefined
    /\ originalDocumentVersion = 0
    /\ validationResult = Undefined
    /\ validationProblems = << >>
    /\ name = Undefined
    /\ options = Undefined
    /\ editResult = Undefined
    /\ choice = Undefined
    /\ applyEdits = Undefined
    /\ requests = << >>
    /\ shown = << >>
    /\ applied = << >>
    /\ second = SecondIdle
    /\ landed = [first |-> "no", second |-> "no"]

\* ------------------------------------------------------------------------
\* The editor
\* ------------------------------------------------------------------------

\* The user types a character at the start of the document.
EditDocument ==
    /\ pc \notin Terminal
    /\ ~document.isClosed
    /\ document.version - InitialDocument.version < MaxEdits
    /\ document' = [document EXCEPT !.version = @ + 1,
                                    !.lineLengths[1] = @ + 1]
    /\ UNCHANGED <<pc, refactorKind, originalDocumentVersion, validationResult,
                   validationProblems, name, options, editResult, choice,
                   applyEdits, requests, shown, applied, second, landed>>

\* The document is closed.
CloseDocument ==
    /\ pc \notin Terminal
    /\ ~document.isClosed
    /\ document' = [document EXCEPT !.isClosed = TRUE]
    /\ UNCHANGED <<pc, refactorKind, originalDocumentVersion, validationResult,
                   validationProblems, name, options, editResult, choice,
                   applyEdits, requests, shown, applied, second, landed>>

\* ------------------------------------------------------------------------
\* performRefactor
\* ------------------------------------------------------------------------

\* Lines 28-36: the command is invoked, with or without a document.
PerformRefactor(hasDocument, kind) ==
    /\ pc = "Idle"
    /\ refactorKind' = Some(kind)
    /\ IF ~hasDocument \/ document.isClosed
       THEN /\ pc' = "Aborted"
            /\ UNCHANGED <<originalDocumentVersion, requests>>
       ELSE /\ originalDocumentVersion' = document.version
            /\ requests' = Append(requests, getRefactor(document, kind, TRUE, Undefined))
            /\ pc' = "Validating"
    /\ UNCHANGED <<document, validationResult, validationProblems, name,
                   options, editResult, choice, applyEdits, shown, applied>>

\* Lines 36-41 and 125-128: the validation response arrives.
ValidationResponse(result) ==
    /\ pc = "Validating"
    /\ validationResult' = Some(result)
    /\ validationProblems' = ValidationProblems(result)
    /\ LET check == shouldAbortRefactor(result)
       IN  IF check.abort
           THEN /\ shown' = shown \o check.shown
                /\ pc' = "Aborted"
           ELSE IF refactorKind[1] \notin refactorOptions
           THEN \* refactorOptions[refactorKind] is undefined: calling it throws
                \* a TypeError and the promise of performRefactor is rejected.
                /\ shown' = shown \o check.shown
                /\ pc' = "Rejected"
           ELSE /\ shown' = shown \o check.shown
                      \o <<showInputBox(INPUT_PROMPT, SuggestedName(result.feedback[1]))>>
                /\ pc' = "CollectingOptions"
    /\ UNCHANGED <<document, refactorKind, originalDocumentVersion, name,
                   options, editResult, choice, applyEdits, requests, applied>>

\* Lines 128-139: the input box resolves and getExtractMethodArgs returns.
\* performRefactor is still suspended at the await of line 41.  The code
\* keeps its local validationResult to the end but reads it last at line
\* 41, for the feedback that goes into the options here; the variable
\* stands for the local while it is still read.
InputBoxResolved(answer) ==
    /\ pc = "CollectingOptions"
    /\ name' = answer
    /\ options' = ExtractMethodOptions(validationResult[1].feedback[1], answer)
    /\ pc' = "OptionsResolved"
    /\ validationResult' = Undefined
    /\ UNCHANGED <<document, refactorKind, originalDocumentVersion,
                   validationProblems, editResult, choice, applyEdits,
                   requests, shown, applied>>

\* Variant of OptionsReturned: the second request is sent without looking
\* at the options first.
OptionsReturnedWithoutCheck ==
    /\ pc = "OptionsResolved"
    /\ requests' = Append(requests,
           getRefactor(document, refactorKind[1], FALSE, options))
    /\ pc' = "RequestingEdit"
    /\ UNCHANGED <<document, refactorKind, originalDocumentVersion,
                   validationResult, validationProblems, name, options,
                   editResult, choice, applyEdits, shown, applied>>

\* Lines 41-46: the await of line 41 yields the options.
OptionsReturned ==
    /\ pc = "OptionsResolved"
    /\ IF options = Undefined
       THEN /\ pc' = "Aborted"
            /\ UNCHANGED requests
       ELSE /\ requests' = Append(requests,
                   getRefactor(document, refactorKind[1], FALSE, options))
            /\ pc' = "RequestingEdit"
    /\ UNCHANGED <<document, refactorKind, originalDocumentVersion,
                   validationResult, validationProblems, name, options,
                   editResult, choice, applyEdits, shown, applied>>

\* shouldApplyEdits returns through lines 110-116; performRefactor is still
\* suspended at the await of line 47.
ReturnThroughGate(apply, shownBefore) ==
    LET gate == FinalGate(apply, document, originalDocumentVersion)
    IN  /\ shown' = shownBefore \o gate.shown
        /\ applyEdits' = Some(gate.apply)
        /\ pc' = "EditsDecided"

\* Lines 46-47 and 84-116: the edit response arrives and shouldApplyEdits
\* runs up to its await of line 107 or to its return.
EditResponse(result) ==
    /\ pc = "RequestingEdit"
    /\ editResult' = Some(result)
    /\ IF Len(EditFatals(result)) # 0
       THEN /\ shown' = Append(shown, showErrorMessage(FatalMessage(result), << >>))
            /\ applyEdits' = Some(FALSE)
            /\ pc' = "EditsDecided"
       ELSE IF ChangeIsFalsy(result)
       THEN /\ applyEdits' = Some(FALSE)
            /\ pc' = "EditsDecided"
            /\ UNCHANGED shown
       ELSE IF Len(EditWarnings(result)) # 0
       THEN /\ shown' = Append(shown, ConsentPrompt(result))
            /\ pc' = "EvaluatingConsent"
            /\ UNCHANGED applyEdits
       ELSE ReturnThroughGate(TRUE, shown)
    /\ UNCHANGED <<document, refactorKind, originalDocumentVersion,
                   validationResult, validationProblems, name, options,
                   choice, requests, applied>>

\* Lines 107-116: the consent prompt resolves and shouldApplyEdits returns.
ConsentResolved(answer) ==
    /\ pc = "EvaluatingConsent"
    /\ choice' = answer
    /\ ReturnThroughGate(Consented(answer), shown)
    /\ UNCHANGED <<document, refactorKind, originalDocumentVersion,
                   validationResult, validationProblems, name, options,
                   editResult, requests, applied>>

\* Lines 47-50: the await of line 47 yields applyEdits.
ShouldApplyEditsReturned ==
    /\ pc = "EditsDecided"
    /\ IF applyEdits[1]
       THEN /\ applied' = Append(applied, applySourceChange(document, editResult[1]))
            /\ pc' = "Applying"
       ELSE /\ pc' = "Aborted"
            /\ UNCHANGED applied
    /\ UNCHANGED <<document, refactorKind, originalDocumentVersion,
                   validationResult, validationProblems, name, options,
                   editResult, choice, applyEdits, requests, shown>>

\* The analysis server answers the validateOnly request.
ServerValidates ==
    /\ pc = "Validating"
    /\ \E result \in ValidationResponses(refactorKind[1]) : ValidationResponse(result)
    /\ UNCHANGED <<second, landed>>

\* The user answers or cancels the input box.
UserAnswersInputBox ==
    /\ pc = "CollectingOptions"
    /\ \E answer \in InputBoxAnswers : InputBoxResolved(answer)
    /\ UNCHANGED <<second, landed>>

\* performRefactor resumes with the options.
OptionsAwaited ==
    /\ OptionsReturned
    /\ UNCHANGED <<second, landed>>

\* The analysis server answers the second request.
ServerEdits ==
    /\ pc = "RequestingEdit"
    /\ \E result \in EditResponses : EditResponse(result)
    /\ UNCHANGED <<second, landed>>

\* The user answers or dismisses the consent prompt.
UserAnswersPrompt ==
    /\ pc = "EvaluatingConsent"
    /\ \E answer \in PromptAnswers : ConsentResolved(answer)
    /\ UNCHANGED <<second, landed>>

\* performRefactor resumes with applyEdits.
ApplyEditsAwaited ==
    /\ ShouldApplyEditsReturned
    /\ UNCHANGED <<second, landed>>

\* The command is invoked.
CommandInvoked ==
    /\ pc = "Idle"
    /\ \E hasDocument \in BOOLEAN, kind \in RefactoringKinds :
           PerformRefactor(hasDocument, kind)
    /\ UNCHANGED <<second, landed>>

Next ==
    \/ EditDocument
    \/ CloseDocument
    \/ CommandInvoked
    \/ ServerValidates
    \/ UserAnswersInputBox
    \/ OptionsAwaited
    \/ ServerEdits
    \/ UserAnswersPrompt
    \/ ApplyEditsAwaited

Spec == Init /\ [][Next]_vars

\* The analysis server answers every request, the user answers every
\* prompt and a settled promise resumes the function that awaits it: each
\* of these steps, once enabled, is eventually taken.
SpecFair ==
    /\ Spec
    /\ WF_vars(ServerValidates)
    /\ WF_vars(UserAnswersInputBox)
    /\ WF_vars(OptionsAwaited)
    /\ WF_vars(ServerEdits)
    /\ WF_vars(UserAnswersPrompt)
    /\ WF_vars(ApplyEditsAwaited)

\* ------------------------------------------------------------------------
\* Two invocations on the same document
\* ------------------------------------------------------------------------
\* performRefactor keeps everything in locals: a second call of the command
\* has its own originalDocumentVersion, options and applyEdits, and shares
\* only the document.  The second invocation is followed step by step, from
\* await to await like the first, on one input: kind EXTRACT_METHOD,
\* responses without problems, the typed name "computeTotal" and a change
\* with one edit.  The editor carries out an applied change later, as an
\* edit of the document that advances its version.

\* The feedback of the validation response of the second invocation.
SecondFeedback ==
    [names |-> Some(<<"extracted">>), parameters |-> << >>, returnType |-> "void"]

\* The edit result of the second invocation.
SecondEditResult ==
    Response([initialProblems |-> << >>, optionsProblems |-> << >>,
              finalProblems |-> << >>], Undefined, Some([edits |-> <<"edit">>]))

\* What the first invocation keeps while the second takes a step.
FirstUnchanged ==
    UNCHANGED <<pc, refactorKind, originalDocumentVersion, validationResult,
                validationProblems, name, options, editResult, choice,
                applyEdits, requests, shown, applied>>

\* Lines 28-36 of the second invocation.
SecondInvoked ==
    /\ second.pc = "Idle"
    /\ ~document.isClosed
    /\ second' = [second EXCEPT
                    !.pc = "Validating",
                    !.originalDocumentVersion = document.version,
                    !.requests = <<getRefactor(document, "EXTRACT_METHOD",
                                               TRUE, Undefined)>>]
    /\ FirstUnchanged
    /\ UNCHANGED <<document, landed>>

\* Lines 36-41 and 125-128 of the second invocation.
SecondValidationResponse ==
    /\ second.pc = "Validating"
    /\ second' = [second EXCEPT
                    !.pc = "CollectingOptions",
                    !.shown = <<showInputBox(INPUT_PROMPT,
                                             SuggestedName(SecondFeedback))>>]
    /\ FirstUnchanged
    /\ UNCHANGED <<document, landed>>

\* Lines 128-139 of the second invocation.
SecondInputBoxResolved ==
    /\ second.pc = "CollectingOptions"
    /\ second' = [second EXCEPT
                    !.pc = "OptionsResolved",
                    !.options = ExtractMethodOptions(SecondFeedback,
                                                     Some("computeTotal"))]
    /\ FirstUnchanged
    /\ UNCHANGED <<document, landed>>

\* Lines 41-46 of the second invocation.
SecondOptionsReturned ==
    /\ second.pc = "OptionsResolved"
    /\ second' = [second EXCEPT
                    !.pc = "RequestingEdit",
                    !.requests = Append(@, getRefactor(document, "EXTRACT_METHOD",
                                                       FALSE, second.options))]
    /\ FirstUnchanged
    /\ UNCHANGED <<document, landed>>

\* Lines 46-47 and 84-116 of the second invocation: no problem, so
\* applyEdits is true on reaching line 110.
SecondEditResponse ==
    /\ second.pc = "RequestingEdit"
    /\ LET gate == FinalGate(TRUE, document, second.originalDocumentVersion)
       IN  second' = [second EXCEPT !.pc = "EditsDecided",
                                    !.shown = @ \o gate.shown,
                                    !.applyEdits = Some(gate.apply)]
    /\ FirstUnchanged
    /\ UNCHANGED <<document, landed>>

\* Lines 47-50 of the second invocation.
SecondShouldApplyEditsReturned ==
    /\ second.pc = "EditsDecided"
    /\ second' = [second EXCEPT
                    !.pc = IF second.applyEdits[1] THEN "Applying" ELSE "Aborted",
                    !.applied = IF second.applyEdits[1]
                                THEN <<applySourceChange(document, SecondEditResult)>>
                                ELSE << >>]
    /\ FirstUnchanged
    /\ UNCHANGED <<document, landed>>

\* Where an invocation has captured its baseline and not yet evaluated
\* line 111.
BeforeGate ==
    {"Validating", "CollectingOptions", "OptionsResolved", "RequestingEdit",
     "EvaluatingConsent"}

\* How the landing of a change relates to the other invocation: "during"
\* when the other has captured its baseline and not yet reached its gate.
LandedWhile(otherPc) == IF otherPc \in BeforeGate THEN "during" ELSE "outside"

\* The editor carries out the change the first invocation applied.  A change
\* with no edit leaves the document as it is.
FirstChangeLands ==
    /\ pc = "Applying"
    /\ landed.first = "no"
    /\ IF applied[1].change[1].edits # << >>
       THEN /\ document' = [document EXCEPT !.version = @ + 1,
                                            !.lineLengths[1] = @ + 1]
            /\ landed' = [landed EXCEPT !.first = LandedWhile(second.pc)]
       ELSE /\ document' = document
            /\ landed' = [landed EXCEPT !.first = "noop"]
    /\ FirstUnchanged
    /\ UNCHANGED second

\* The editor carries out the change the second invocation applied.
SecondChangeLands ==
    /\ second.pc = "Applying"
    /\ landed.second = "no"
    /\ document' = [document EXCEPT !.version = @ + 1,
                                    !.lineLengths[1] = @ + 1]
    /\ landed' = [landed EXCEPT !.second = LandedWhile(pc)]
    /\ FirstUnchanged
    /\ UNCHANGED second

\* Responses with at most one problem in all.
BriefResponses(responses) ==
    {r \in responses : Len(ConcatProblems(r)) <= 1}

\* The analysis server answers the first request of the first invocation.
ServerValidatesBriefly ==
    /\ pc = "Validating"
    /\ \E result \in BriefResponses(ValidationResponses(refactorKind[1])) :
           ValidationResponse(result)
    /\ UNCHANGED <<second, landed>>

\* The analysis server answers the second request of the first invocation.
ServerEditsBriefly ==
    /\ pc = "RequestingEdit"
    /\ \E result \in BriefResponses(EditResponses) : EditResponse(result)
    /\ UNCHANGED <<second, landed>>

NextConcurrent ==
    \/ CommandInvoked
    \/ ServerValidatesBriefly
    \/ UserAnswersInputBox
    \/ OptionsAwaited
    \/ ServerEditsBriefly
    \/ UserAnswersPrompt
    \/ ApplyEditsAwaited
    \/ SecondInvoked
    \/ SecondValidationResponse
    \/ SecondInputBoxResolved
    \/ SecondOptionsReturned
    \/ SecondEditResponse
    \/ SecondShouldApplyEditsReturned
    \/ FirstChangeLands
    \/ SecondChangeLands

SpecConcurrent == Init /\ [][NextConcurrent]_vars

\* ------------------------------------------------------------------------
\* Vocabulary of the properties
\* ------------------------------------------------------------------------

\* The problems of a response, whatever list they are in.
ProblemsOf(result) ==
    Elems(result.initialProblems) \cup Elems(result.optionsProblems)
        \cup Elems(result.finalProblems)

ContainsFatal(result) == \E p \in ProblemsOf(result) : p.severity = "FATAL"

ContainsActionable(result) ==
    \E p \in ProblemsOf(result) : p.severity \in {"ERROR", "WARNING"}

OnlyWarnings(result) ==
    /\ ProblemsOf(result) # {}
    /\ \A p \in ProblemsOf(result) : p.severity = "WARNING"

\* The message of the first FATAL problem of a list.
FirstFatalIn(list) ==
    list[CHOOSE i \in 1..Len(list) :
            /\ list[i].severity = "FATAL"
            /\ \A j \in 1..(i - 1) : list[j].severity # "FATAL"].message

ListHasFatal(list) == \E i \in 1..Len(list) : list[i].severity = "FATAL"

\* The first FATAL message in the order initial, options, final.
FirstFatalMessage(result) ==
    IF ListHasFatal(result.initialProblems) THEN FirstFatalIn(result.initialProblems)
    ELSE IF ListHasFatal(result.optionsProblems) THEN FirstFatalIn(result.optionsProblems)
    ELSE FirstFatalIn(result.finalProblems)

\* The orderings of a finite set, as sequences without repetition.
Orderings(S) ==
    {f \in [1..Cardinality(S) -> S] : \A i, j \in 1..Cardinality(S) : f[i] = f[j] => i = j}

\* text lists every distinct FATAL message of the result once, separated by
\* blank lines, and ends with the notice that nothing was applied.
IsFatalReport(text, result) ==
    \E order \in Orderings({p.message : p \in {q \in ProblemsOf(result) : q.severity = "FATAL"}}) :
        text = Join(order, "\n\n") \o "\n\nYour refactor was not applied."

InputBoxes == {i \in 1..Len(shown) : shown[i].call = "showInputBox"}

\* Messages and prompts other than the input box, in order.
RECURSIVE WithoutInputBoxes(_)
WithoutInputBoxes(calls) ==
    IF calls = << >> THEN << >>
    ELSE IF Head(calls).call = "showInputBox"
         THEN WithoutInputBoxes(Tail(calls))
         ELSE <<Head(calls)>> \o WithoutInputBoxes(Tail(calls))

Messages == WithoutInputBoxes(shown)

\* Message calls that offer a choice.
ConsentPrompts == {i \in 1..Len(shown) : shown[i].items # << >>}

EditRequests == {i \in 1..Len(requests) : ~requests[i].validateOnly}

RequestsWithOptions == {i \in 1..Len(requests) : requests[i].options # Undefined}

ApplyInvoked == applied # << >>

\* The input box was shown and has resolved to nothing.
NamePromptCancelled ==
    InputBoxes # {} /\ pc # "CollectingOptions" /\ name = Undefined

\* The consent prompt was shown and resolved to something else than the
\* proceed choice.
ConsentDismissed ==
    ConsentPrompts # {} /\ pc # "EvaluatingConsent" /\ choice # Some(REFACTOR_ANYWAY)

\* shouldApplyEdits got to its last check: no FATAL problem, a change, and
\* consent given or not needed.
FinalGateReached ==
    /\ editResult # Undefined
    /\ pc \in Terminal \cup {"EditsDecided"}
    /\ ~ContainsFatal(editResult[1])
    /\ editResult[1].change # Undefined
    /\ (ContainsActionable(editResult[1]) => choice = Some(REFACTOR_ANYWAY))

\* The invocation has ended without applying, or can only do so: the
\* resolver returned no options, or shouldApplyEdits returned false, and
\* performRefactor is about to resume and return.
Aborting ==
    \/ pc = "Aborted"
    \/ pc = "OptionsResolved" /\ options = Undefined
    \/ pc = "EditsDecided" /\ applyEdits = Some(FALSE)

\* A step in which shouldApplyEdits evaluates line 111 with applyEdits true:
\* no FATAL problem, a change, and consent given or not needed.
EvaluatesFinalGate ==
    /\ pc \in {"RequestingEdit", "EvaluatingConsent"}
    /\ pc' = "EditsDecided"
    /\ ~ContainsFatal(editResult'[1])
    /\ editResult'[1].change # Undefined
    /\ (ContainsActionable(editResult'[1]) => choice' = Some(REFACTOR_ANYWAY))

\* The version line 111 reads in such a step is the captured one.
FreshAtFinalGate == document.version = originalDocumentVersion

\* ------------------------------------------------------------------------
\* Properties
\* ------------------------------------------------------------------------

\* C1: the apply step is invoked only if neither the validation response nor
\* the edit response contains a FATAL problem and the document version read
\* at the final check equals the version captured before the validation
\* request was issued.
C1_ApplyOnlyWithoutFatalAndFresh ==
    /\ [](ApplyInvoked =>
            /\ validationProblems = << >>
            /\ editResult # Undefined
            /\ ~ContainsFatal(editResult[1])
            /\ applyEdits = Some(TRUE))
    /\ [][applyEdits' = Some(TRUE) =>
            \/ applyEdits = Some(TRUE)
            \/ EvaluatesFinalGate /\ FreshAtFinalGate]_vars

\* C1 witness: an edit was applied after the document had been edited
\* before the invocation and the user had consented; the version is still
\* the captured one.
C1_Witness ==
    /\ ApplyInvoked
    /\ document.version > InitialDocument.version
    /\ document.version = originalDocumentVersion
    /\ choice = Some(REFACTOR_ANYWAY)

\* C2: for a kind without a registered resolver, once validation returned
\* without FATAL problems the flow ends in Aborted as a handled no-op: no
\* request with validateOnly=false or with options, no message, no apply.
C2_NoResolverIsHandledNoOp ==
    ( /\ refactorKind # Undefined
      /\ refactorKind[1] \notin {"EXTRACT_METHOD"}
      /\ validationResult # Undefined
      /\ ~ContainsFatal(validationResult[1]) )
    => /\ pc = "Aborted"
       /\ EditRequests = {}
       /\ RequestsWithOptions = {}
       /\ shown = << >>
       /\ ~ApplyInvoked

\* C3: a validation response with a FATAL problem aborts the flow before
\* options are collected: no name prompt, no second request, no apply, and
\* exactly one error message, that of the first FATAL problem in the order
\* initial, options, final.
C3_ValidationFatalAborts ==
    (validationResult # Undefined /\ ContainsFatal(validationResult[1]))
    => /\ pc = "Aborted"
       /\ shown = <<showErrorMessage(FirstFatalMessage(validationResult[1]), << >>)>>
       /\ Len(requests) = 1 /\ requests[1].validateOnly
       /\ ~ApplyInvoked

\* C3 witness: the flow aborted on a FATAL problem of optionsProblems that
\* comes after a problem of initialProblems that is not FATAL.
C3_Witness ==
    /\ validationResult # Undefined
    /\ pc = "Aborted"
    /\ validationResult[1].initialProblems # << >>
    /\ ~ListHasFatal(validationResult[1].initialProblems)
    /\ ListHasFatal(validationResult[1].optionsProblems)
    /\ shown # << >>

\* C4: an edit response with a FATAL problem aborts the flow: no consent
\* prompt, no apply, and one error message made of the de-duplicated FATAL
\* messages joined by blank lines, followed by the not-applied notice.
C4_EditFatalAborts ==
    (editResult # Undefined /\ ContainsFatal(editResult[1]))
    => /\ Aborting
       /\ ConsentPrompts = {}
       /\ ~ApplyInvoked
       /\ Len(Messages) = 1
       /\ Messages[1].call = "showErrorMessage"
       /\ IsFatalReport(Messages[1].message, editResult[1])

\* C4 witness: the edit response has a FATAL problem, an ERROR problem and
\* a change; only the FATAL report was shown.
C4_Witness ==
    /\ editResult # Undefined
    /\ pc = "Aborted"
    /\ ContainsFatal(editResult[1])
    /\ \E p \in ProblemsOf(editResult[1]) : p.severity = "ERROR"
    /\ editResult[1].change # Undefined
    /\ Len(Messages) = 1

\* C5: if the document version at the final gate differs from the version
\* captured at the start, apply is never invoked and the message
\* REFACTOR_FAILED_DOC_MODIFIED is shown, even if the user chose to proceed.
C5_StaleDocumentNeverApplied ==
    /\ [][(EvaluatesFinalGate /\ ~FreshAtFinalGate) =>
            /\ applyEdits' = Some(FALSE)
            /\ shown' = Append(shown,
                   showErrorMessage("This refactor cannot be applied because the document has changed.", << >>))]_vars
    /\ [](applyEdits = Some(FALSE) => (Aborting /\ ~ApplyInvoked))

\* C5 witness: the user chose to proceed on a document edited meanwhile;
\* the message was shown after the prompt and the invocation ended without
\* applying.
C5_Witness ==
    /\ FinalGateReached
    /\ pc = "Aborted"
    /\ document.version # originalDocumentVersion
    /\ choice = Some(REFACTOR_ANYWAY)
    /\ Len(Messages) = 2
    /\ Messages[2].message = "This refactor cannot be applied because the document has changed."
    /\ ~ApplyInvoked

\* C6: with only WARNING problems and an edit-set, the proceed choice and
\* an unchanged document version, the edit-set of the edit result is
\* forwarded to the apply step exactly once.
C6_ConsentedWarningsAppliedOnce ==
    /\ [][( /\ EvaluatesFinalGate
            /\ OnlyWarnings(editResult'[1])
            /\ FreshAtFinalGate )
          => (applyEdits' = Some(TRUE) /\ shown' = shown)]_vars
    /\ []( ( /\ editResult # Undefined
             /\ OnlyWarnings(editResult[1])
             /\ applyEdits = Some(TRUE)
             /\ pc \in Terminal )
           => /\ pc = "Applying"
              /\ Len(applied) = 1
              /\ applied[1].change = editResult[1].change
              /\ applied[1].document = document.fileName )
    /\ [](Len(applied) <= 1)

\* C6 witness: an edit-set with an edit was applied after consent to two
\* warnings.
C6_Witness ==
    /\ editResult # Undefined
    /\ OnlyWarnings(editResult[1])
    /\ Len(ConcatProblems(editResult[1])) = 2
    /\ choice = Some(REFACTOR_ANYWAY)
    /\ Len(applied) = 1
    /\ applied[1].change = Some([edits |-> <<"edit">>])

\* C7: with only WARNING problems, if the user dismisses the consent prompt
\* the apply step is never invoked, whatever the document version is.
C7_DismissedWarningsNeverApplied ==
    (editResult # Undefined /\ OnlyWarnings(editResult[1]) /\ ConsentDismissed)
    => (~ApplyInvoked /\ Aborting)

\* C7 witness: the prompt was dismissed on an unchanged document.
C7_Witness ==
    /\ editResult # Undefined
    /\ OnlyWarnings(editResult[1])
    /\ ConsentDismissed
    /\ document.version = originalDocumentVersion
    /\ ~document.isClosed

\* C8 as stated: with zero problems and an empty or absent edit-set the flow
\* aborts without any message or prompt and apply is never invoked.
C8_EmptyOrAbsentChangeAborts ==
    ( /\ editResult # Undefined
      /\ ProblemsOf(editResult[1]) = {}
      /\ editResult[1].change \in {Undefined, Some([edits |-> << >>])} )
    => (Aborting /\ Messages = << >> /\ ~ApplyInvoked)

\* C8 amended: with zero problems and an absent edit-set (no change in the
\* response) the flow aborts without any message or prompt and apply is
\* never invoked.
C8_AbsentChangeAborts ==
    ( /\ editResult # Undefined
      /\ ProblemsOf(editResult[1]) = {}
      /\ editResult[1].change = Undefined )
    => (Aborting /\ Messages = << >> /\ ~ApplyInvoked)

\* C8 witness: an edit response without problems and without a change.
C8_Witness ==
    /\ editResult # Undefined
    /\ ProblemsOf(editResult[1]) = {}
    /\ editResult[1].change = Undefined
    /\ pc = "Aborted"

\* C9: for EXTRACT_METHOD, if the user cancels the name prompt no request
\* with validateOnly=false is issued, no message is shown and apply is never
\* invoked.
C9_CancelledNamePromptAborts ==
    (refactorKind = Some("EXTRACT_METHOD") /\ NamePromptCancelled)
    => /\ Aborting
       /\ EditRequests = {}
       /\ RequestsWithOptions = {}
       /\ Messages = << >>
       /\ ~ApplyInvoked

\* C9 witness: the name prompt was shown and cancelled.
C9_Witness ==
    /\ refactorKind = Some("EXTRACT_METHOD")
    /\ NamePromptCancelled
    /\ Len(requests) = 1

\* The seed of the name prompt: the first suggested name, if there is one.
FirstSuggestedName(feedback) ==
    IF feedback.names = Undefined THEN Undefined
    ELSE IF feedback.names[1] = << >> THEN Undefined
    ELSE Some(Head(feedback.names[1]))

\* The step in which the input box resolves to the string entered, for the
\* feedback of the validation response: one prompt was shown, seeded with
\* the first suggested name, and the resolver returns the options built
\* from the entered name and the feedback.
ResolverReturnsOptions(feedback, entered) ==
    LET expected == [name         |-> entered,
                     createGetter |-> FALSE,
                     extractAll   |-> FALSE,
                     parameters   |-> feedback.parameters,
                     returnType   |-> feedback.returnType]
    IN  /\ shown = <<showInputBox("Enter a name for the method", FirstSuggestedName(feedback))>>
        /\ shown' = shown
        /\ options' = Some(expected)

\* The step in which performRefactor resumes with the options returned: the
\* second request carries them.
SecondRequestCarriesOptions ==
    (pc = "OptionsResolved" /\ pc' # "OptionsResolved" /\ options # Undefined)
    => /\ Len(requests') = 2
       /\ requests'[2].options = options
       /\ ~requests'[2].validateOnly

\* C10 as stated: for every feedback and every name the user enters, the
\* resolver shows one prompt seeded with the first suggested name and
\* returns the options {name, createGetter: false, extractAll: false,
\* parameters, returnType}, which the second request carries.
C10_EveryNameGivesOptions ==
    /\ [][ (pc = "CollectingOptions" /\ pc' # "CollectingOptions" /\ name' # Undefined)
            => ResolverReturnsOptions(validationResult[1].feedback[1], name'[1]) ]_vars
    /\ [][SecondRequestCarriesOptions]_vars

\* C10 amended: for every feedback and every non-empty name the user enters,
\* the resolver shows one prompt seeded with the first suggested name and
\* returns the options {name, createGetter: false, extractAll: false,
\* parameters, returnType}, which the second request carries.
C10_NonEmptyNameGivesOptions ==
    /\ [][ (pc = "CollectingOptions" /\ pc' # "CollectingOptions"
                /\ name' # Undefined /\ name'[1] # "")
            => ResolverReturnsOptions(validationResult[1].feedback[1], name'[1]) ]_vars
    /\ [][SecondRequestCarriesOptions]_vars

\* C10 witness: a name was entered for a feedback with parameters, and the
\* second request carries the options.
C10_Witness ==
    /\ pc = "RequestingEdit"
    /\ name = Some("computeTotal")
    /\ Len(requests) = 2
    /\ requests[2].options # Undefined
    /\ requests[2].options[1].parameters = <<"p">>
    /\ shown[1].value = Some("f")

\* The distinct messages of the problems of a result with a severity in sevs.
DistinctMessages(result, sevs) ==
    {p.message : p \in {q \in ProblemsOf(result) : q.severity \in sevs}}

\* text lists every string of msgs exactly once, separated by blank lines.
ListsEachOnce(text, msgs) ==
    \E order \in Orderings(msgs) : text = Join(order, "\n\n")

\* C11: in the FATAL message and in the consent prompt built from the edit
\* result, each distinct problem message appears exactly once, however many
\* problems of the three lists share it.
C11_EachMessageShownOnce ==
    editResult # Undefined =>
        /\ ContainsFatal(editResult[1]) =>
              /\ Messages # << >>
              /\ \E text \in {Join(order, "\n\n") :
                                order \in Orderings(DistinctMessages(editResult[1], {"FATAL"}))} :
                     Messages[1].message = text \o "\n\nYour refactor was not applied."
        /\ ( /\ ~ContainsFatal(editResult[1])
             /\ editResult[1].change # Undefined
             /\ ContainsActionable(editResult[1]) ) => ConsentPrompts # {}
        /\ \A i \in ConsentPrompts :
              ListsEachOnce(shown[i].message,
                            DistinctMessages(editResult[1], {"ERROR", "WARNING"}))

\* C11 witness: a consent prompt for an ERROR of initialProblems and a
\* WARNING of finalProblems with the same message, shown as one line.
C11_Witness ==
    /\ editResult # Undefined
    /\ Len(editResult[1].initialProblems) = 1
    /\ Len(editResult[1].finalProblems) = 1
    /\ editResult[1].initialProblems[1].severity = "ERROR"
    /\ editResult[1].finalProblems[1].severity = "WARNING"
    /\ editResult[1].initialProblems[1].message = editResult[1].finalProblems[1].message
    /\ ConsentPrompts # {}
    /\ \A i \in ConsentPrompts : shown[i].message = editResult[1].initialProblems[1].message

\* C12: a cancellation at any suspension point routes the invocation to
\* Aborted with no edit applied; in particular, once the document has been
\* closed while the flow awaits the validation response, the name prompt,
\* the edit response or the consent prompt, apply is never invoked.
C12_CancellationNeverApplies ==
    /\ (NamePromptCancelled \/ ConsentDismissed) => (Aborting /\ ~ApplyInvoked)
    /\ document.isClosed => ~ApplyInvoked

\* C13: the steps of an invocation are strictly ordered.  The resolver (its
\* input box) is not invoked before the validation response was received
\* and found free of FATAL problems; the validateOnly=false request is not
\* issued before options were produced; apply is not invoked before the
\* edit response was received, consent was given or not needed, and the
\* version check passed.
C13_StepsInOrder ==
    /\ [](InputBoxes # {} =>
            /\ pc \notin {"Idle", "Validating"}
            /\ validationProblems = << >>
            /\ requests # << >> /\ requests[1].validateOnly)
    /\ [](EditRequests # {} =>
            /\ EditRequests = {2}
            /\ InputBoxes # {}
            /\ name # Undefined
            /\ options # Undefined
            /\ requests[2].options = options)
    /\ [](ApplyInvoked =>
            /\ EditRequests # {}
            /\ editResult # Undefined
            /\ ContainsActionable(editResult[1]) =>
                  (ConsentPrompts # {} /\ choice = Some(REFACTOR_ANYWAY))
            /\ applyEdits = Some(TRUE))
    /\ [][applied' # applied =>
            (pc = "EditsDecided" /\ applyEdits = Some(TRUE))]_vars
    /\ [][(applyEdits = Undefined /\ applyEdits' = Some(TRUE)) =>
            FreshAtFinalGate]_vars

\* C13 witness: apply was invoked after both requests, the name prompt and
\* the consent prompt.
C13_Witness ==
    /\ ApplyInvoked
    /\ Len(requests) = 2
    /\ Len(shown) = 2
    /\ choice = Some(REFACTOR_ANYWAY)

\* C14 as stated: the second request is for the same file, kind, offset and
\* length as the validation request, even when the document is mutated
\* between the two; the first has validateOnly=true and no options, the
\* second validateOnly=false and the collected options.
C14_SecondRequestSameOffset ==
    Len(requests) = 2 =>
        /\ requests[1].validateOnly /\ requests[1].options = Undefined
        /\ ~requests[2].validateOnly /\ requests[2].options = options
        /\ requests[2].file = requests[1].file
        /\ requests[2].kind = requests[1].kind
        /\ requests[2].offset = requests[1].offset
        /\ requests[2].length = requests[1].length

\* C14 amended: the second request is for the same file and kind as the
\* validation request; its offset and length are computed from the document
\* as it is when the request is sent, and equal those of the validation
\* request when the document was not edited between the two requests.  The
\* first has validateOnly=true and no options, the second validateOnly=false
\* and the collected options.
C14_SecondRequestSameTarget ==
    [][ (Len(requests) = 1 /\ Len(requests') = 2) =>
          /\ requests'[1] = requests[1]
          /\ requests[1].validateOnly /\ requests[1].options = Undefined
          /\ ~requests'[2].validateOnly
          /\ options' # Undefined /\ requests'[2].options = options'
          /\ requests'[2].file = requests[1].file
          /\ requests'[2].kind = requests[1].kind
          /\ document.version = originalDocumentVersion =>
                /\ requests'[2].offset = requests[1].offset
                /\ requests'[2].length = requests[1].length ]_vars

\* C14 witness: both requests were sent for an unedited document.
C14_Witness ==
    /\ Len(requests) = 2
    /\ pc = "RequestingEdit"
    /\ document.version = originalDocumentVersion
    /\ requests[2].offset = requests[1].offset
    /\ ~requests[2].validateOnly
    /\ requests[2].options # Undefined

DocumentChangedMessages ==
    {i \in 1..Len(shown) :
        shown[i].message = "This refactor cannot be applied because the document has changed."}

\* C15: staleness is judged only at the final gate.  While the flow runs,
\* whatever the document version, no 'document changed' message is shown;
\* it is shown only when the edit result has no FATAL problem, carries an
\* edit-set and the user consented or no ERROR/WARNING problem existed, and
\* never on a path that aborts earlier (validation FATAL, cancelled options,
\* edit FATAL, missing edit-set, declined consent).
C15_StalenessOnlyAtFinalGate ==
    /\ DocumentChangedMessages # {} =>
          /\ FinalGateReached
          /\ document.version # originalDocumentVersion
          /\ DocumentChangedMessages = {Len(shown)}
    /\ ( \/ validationProblems # << >>
         \/ NamePromptCancelled
         \/ (editResult # Undefined /\ ContainsFatal(editResult[1]))
         \/ (editResult # Undefined /\ editResult[1].change = Undefined)
         \/ ConsentDismissed ) => DocumentChangedMessages = {}
    /\ (pc = "CollectingOptions" /\ document.version # originalDocumentVersion) =>
          (Len(requests) = 1 /\ Len(shown) = 1 /\ InputBoxes = {1})
    /\ (pc = "RequestingEdit" /\ document.version # originalDocumentVersion) =>
          (Len(requests) = 2 /\ EditRequests = {2} /\ Len(shown) = 1)
    /\ (pc = "EvaluatingConsent" /\ document.version # originalDocumentVersion) =>
          (Len(requests) = 2 /\ Len(shown) = 2 /\ ConsentPrompts = {2})

\* C15 witness: the consent prompt was declined on a document edited during
\* the flow, after both requests and both prompts; no message followed.
C15_Witness ==
    /\ ConsentDismissed
    /\ pc = "Aborted"
    /\ document.version # originalDocumentVersion
    /\ Len(requests) = 2
    /\ Len(shown) = 2

\* C18: ERROR and WARNING problems of the validation response do not gate
\* the flow: a validation response with ERROR or WARNING problems and no
\* FATAL problem shows no message and no consent prompt, and the flow goes
\* on to options collection.
C18_ValidationWarningsDoNotGate ==
    ( /\ validationResult # Undefined
      /\ ~ContainsFatal(validationResult[1])
      /\ ContainsActionable(validationResult[1]) )
    => /\ Messages = << >>
       /\ ConsentPrompts = {}
       /\ validationProblems = << >>
       /\ pc # "Aborted"
       /\ refactorKind = Some("EXTRACT_METHOD") =>
             (pc = "CollectingOptions" /\ InputBoxes = {1} /\ Len(shown) = 1)

\* C18 witness: the name prompt is open after a validation response with an
\* ERROR and a WARNING.
C18_Witness ==
    /\ validationResult # Undefined
    /\ pc = "CollectingOptions"
    /\ \E p \in ProblemsOf(validationResult[1]) : p.severity = "ERROR"
    /\ \E p \in ProblemsOf(validationResult[1]) : p.severity = "WARNING"
    /\ shown = <<showInputBox("Enter a name for the method", Some("extracted"))>>

\* C19: when the edit result has no FATAL problem, carries an edit-set and
\* has an ERROR or WARNING problem, exactly one consent prompt is shown,
\* offering the single choice REFACTOR_ANYWAY; it is an error-level prompt
\* if and only if a problem has severity ERROR, and a warning-level prompt
\* otherwise.  Without ERROR and WARNING problems no consent prompt is shown.
C19_OneConsentPromptOfRightLevel ==
    editResult # Undefined =>
        /\ ( /\ ~ContainsFatal(editResult[1])
             /\ editResult[1].change # Undefined
             /\ ContainsActionable(editResult[1]) )
           => /\ Cardinality(ConsentPrompts) = 1
              /\ \A i \in ConsentPrompts :
                    /\ shown[i].items = <<"Refactor Anyway">>
                    /\ shown[i].call =
                          IF \E p \in ProblemsOf(editResult[1]) : p.severity = "ERROR"
                          THEN "showErrorMessage"
                          ELSE "showWarningMessage"
        /\ ~ContainsActionable(editResult[1]) => ConsentPrompts = {}

\* C19 witness: a warning-level prompt for two WARNING problems.
C19_Witness ==
    /\ editResult # Undefined
    /\ OnlyWarnings(editResult[1])
    /\ Len(ConcatProblems(editResult[1])) = 2
    /\ pc = "EvaluatingConsent"
    /\ shown[2].call = "showWarningMessage"

\* C20: a name prompt answered with the empty string is treated like a
\* cancelled prompt: no options, no validateOnly=false request, no message,
\* no apply; every options payload that is sent carries a non-empty name.
C20_EmptyNameIsCancel ==
    /\ (refactorKind = Some("EXTRACT_METHOD") /\ name = Some("")) =>
          /\ Aborting
          /\ options = Undefined
          /\ EditRequests = {}
          /\ RequestsWithOptions = {}
          /\ Messages = << >>
          /\ ~ApplyInvoked
    /\ \A i \in RequestsWithOptions : requests[i].options[1].name # ""

\* C20 witness: the name prompt was answered with the empty string.
C20_Witness ==
    /\ name = Some("")
    /\ pc = "Aborted"
    /\ Len(shown) = 1
    /\ Len(requests) = 1

ValidationRequests == {i \in 1..Len(requests) : requests[i].validateOnly}

\* C17: if the analysis server answers each request and the user each
\* prompt, every invocation eventually reaches Applying or Aborted; it
\* issues at most one request with validateOnly=true and at most one with
\* validateOnly=false, and invokes apply at most once.
C17_EveryInvocationEnds ==
    /\ (pc = "Validating") ~> (pc \in {"Applying", "Aborted"})
    /\ [](/\ Cardinality(ValidationRequests) <= 1
          /\ Cardinality(EditRequests) <= 1
          /\ Len(requests) <= 2
          /\ Len(applied) <= 1)

\* The second invocation has passed its line 111, one way or the other.
SecondGateReached == second.pc \in {"EditsDecided", "Applying", "Aborted"}

\* The second invocation is at its end.
SecondEnded == second.pc \in {"Applying", "Aborted"}

\* What the second invocation shows on the way to its gate.
SecondInputBox == showInputBox("Enter a name for the method", Some("extracted"))

SecondShowsDocumentChanged ==
    second.shown = <<SecondInputBox,
                     showErrorMessage("This refactor cannot be applied because the document has changed.", << >>)>>

\* C16: two invocations on the same document are not coordinated and each
\* judges staleness against its own captured baseline.  When the change of
\* one invocation was carried out, advancing the version, after the other
\* captured its baseline and before the other reached its final gate, the
\* other, on reaching its final gate, shows the 'document changed' message
\* and does not apply.  When no change was carried out between its own
\* capture and its own gate, an invocation that reaches its final gate
\* applies without the message, whatever became of the other invocation.
C16_EachJudgesOwnBaseline ==
    /\ (landed.second = "during" /\ FinalGateReached)
          => (DocumentChangedMessages # {} /\ ~ApplyInvoked /\ Aborting)
    /\ (landed.first = "during" /\ SecondGateReached)
          => (SecondShowsDocumentChanged /\ second.applied = << >>
                /\ second.applyEdits = Some(FALSE))
    /\ (landed.second # "during" /\ FinalGateReached)
          => /\ DocumentChangedMessages = {}
             /\ applyEdits = Some(TRUE)
             /\ pc \in Terminal => ApplyInvoked
    /\ (landed.first # "during" /\ SecondGateReached)
          => /\ second.shown = <<SecondInputBox>>
             /\ second.applyEdits = Some(TRUE)
             /\ SecondEnded => second.applied # << >>

\* Both invocations ran at the same time from the same baseline; the second
\* applied, its change was carried out while the first was suspended, and
\* the first, reaching its final gate, showed the message and did not apply.
C16_Witness ==
    /\ landed.second = "during"
    /\ second.originalDocumentVersion = originalDocumentVersion
    /\ second.applied # << >>
    /\ FinalGateReached
    /\ pc = "Aborted"
    /\ DocumentChangedMessages # {}
    /\ ~ApplyInvoked

====
